---- MODULE Spec2Model ----
(***************************************************************************)
(* A model of the contiguous memory allocator of src/myalloc: the global   *)
(* struct Myalloc (myalloc.c:17-30), the singly linked lists of list.c     *)
(* that hold the free and the allocated chunks, and the operations         *)
(* initialize_allocator, allocate, deallocate, available_memory,           *)
(* used_memory, is_fragmented and compact_allocation, with the mutex that  *)
(* allocate, deallocate and compact_allocation take.                       *)
(*                                                                         *)
(* Addresses are byte offsets from the start of the malloc'ed buffer, so   *)
(* myalloc.memory is HEADER_SIZE and the header of a block b is the byte   *)
(* range b - HEADER_SIZE .. b - 1.  No block is ever at offset 0, which    *)
(* stands for the C NULL pointer.  The buffer is modelled byte by byte     *)
(* because the code writes its first header as a size_t (myalloc.c:68)     *)
(* and every other header through a char lvalue, and reads every header    *)
(* through a char lvalue: one byte, sign-extended when char is signed.     *)
(* The byte order is little-endian (the low byte of the size_t is the      *)
(* byte the char reads see); whether plain char is signed is a property    *)
(* of the build and is chosen in Init.                                     *)
(***************************************************************************)
EXTENDS Integers, Sequences, FiniteSets, TLC

VARIABLES
    phase,           \* "uninit" before initialize_allocator, "ready" after it
    char_signed,     \* whether plain char is a signed type in this build
    aalgorithm,      \* myalloc.aalgorithm
    size,            \* myalloc.size
    mem,             \* the malloc'ed buffer: the offset and value of each non-zero byte
    free_list,       \* myalloc.free_list: the block of every node, head first
    allocated_list,  \* myalloc.allocated_list: the block of every node, head first
    avail_mem,       \* myalloc.available_memory
    used_mem,        \* myalloc.used_memory
    live,            \* the caller's pointers: returned by allocate, not yet deallocated
    ncalls,          \* the number of calls made since initialize_allocator
    last,            \* the last call made: its name, its argument and what it returned
    lock,            \* myalloc.lock: the thread that holds it, or NoThread
    pc,              \* where each thread is: "idle" between calls, else inside a call
    dest,            \* compact_allocation's local dest of each thread: the values it may hold
    _before,         \* the caller's array _before: the slots compact_allocation has written
    _after,          \* the caller's array _after: the slots compact_allocation has written
    on_entry         \* the lists and the buffer as the last compact_allocation found them

vars == <<phase, char_signed, aalgorithm, size, mem, free_list, allocated_list,
          avail_mem, used_mem, live, ncalls, last, lock, pc, dest, _before, _after,
          on_entry>>

\* the state of the calls in progress
callvars == <<lock, pc, dest, _before, _after, on_entry>>

(***************************************************************************)
(* Program constants and the bounds of the model.                          *)
(***************************************************************************)
HEADER_SIZE == 8

ALIGNMENT == 64

NULL == 0

\* the largest capacity passed to initialize_allocator
MaxCapacity == 200

\* the sizes passed to allocate: 8 and 16 split a chunk or use one up with 8 bytes
\* to spare, 56 uses up a 64-byte arena, 128 a 128-byte one
ReqSizes == {8, 16, 56, 128}

\* the number of calls made after initialize_allocator
MaxCalls == 6

\* the number of calls of a run that fills the arena and then frees every pointer
MaxExhaustCalls == 8

\* the number of calls the threads make
MaxThreadCalls == 4

\* the number of calls of allocate and deallocate of the caller that coalesces
MaxCoalesceCalls == 5

\* the number of calls made before compact_allocation
MaxCompactCalls == 6

\* the sizes passed to allocate before compact_allocation
CompactSizes == {8, 16}

Algorithms == {"FIRST_FIT", "BEST_FIT", "WORST_FIT"}

\* the threads that call the allocator; MainThread is the one of the sequential callers
NumThreads == 2

Threads == 1..NumThreads

MainThread == 1

NoThread == 0

\* what an uninitialised dest may hold: the header address of a chunk at the start,
\* in the middle or past the end of the buffer
IndeterminateDest == {0, 16, 504}

(***************************************************************************)
(* The chunk headers.                                                      *)
(***************************************************************************)
\* the value of an int stored through a char lvalue: its low 8 bits
ByteOf(v) == v % 256

\* The buffer is zero-filled by initialize_allocator; a buffer value m maps the
\* offsets of its non-zero bytes to their values, and every other byte is 0.
ReadByte(m, i) == IF i \in DOMAIN m THEN m[i] ELSE 0

WriteByte(m, i, b) ==
    LET D == IF b = 0 THEN DOMAIN m \ {i} ELSE DOMAIN m \cup {i}
    IN  [j \in D |-> IF j = i THEN b ELSE m[j]]

\* *((char*)block - HEADER_SIZE) = v
WriteHeader(m, block, v) == WriteByte(m, block - HEADER_SIZE, ByteOf(v))

\* *((char*)block - HEADER_SIZE): one byte read as a char and promoted to int
RawHeader(m, block, sgn) ==
    LET b == ReadByte(m, block - HEADER_SIZE)
    IN  IF sgn /\ b >= 128 THEN b - 256 ELSE b

\* abs(*((char*)block - HEADER_SIZE))
ChunkSize(m, block, sgn) ==
    LET r == RawHeader(m, block, sgn)
    IN  IF r < 0 THEN 0 - r ELSE r

(***************************************************************************)
(* list.c                                                                  *)
(* A list is the sequence of the block fields of its nodes; a node pointer *)
(* is the node's position in the sequence, and 0 is the NULL node.         *)
(***************************************************************************)
RECURSIVE FindFrom(_, _, _)
FindFrom(list, block, i) ==
    IF i > Len(list) THEN 0
    ELSE IF list[i] = block THEN i
    ELSE FindFrom(list, block, i + 1)

List_findNode(list, block) == FindFrom(list, block, 1)

List_countNodes(list) == Len(list)

List_insertHead(list, block) ==
    IF list = <<>> THEN <<block>>
    ELSE IF List_findNode(list, block) # 0 THEN list
    ELSE <<block>> \o list

\* node is a node of the list at every call the operations make
List_deleteNode(list, node) ==
    IF List_countNodes(list) = 1 THEN <<>>
    ELSE IF node = 1 THEN Tail(list)
    ELSE SubSeq(list, 1, node - 1) \o SubSeq(list, node + 1, Len(list))

(***************************************************************************)
(* available_memory and used_memory: the sum of the header sizes of a list *)
(***************************************************************************)
RECURSIVE SumSizes(_, _, _)
SumSizes(list, m, sgn) ==
    IF list = <<>> THEN 0
    ELSE ChunkSize(m, Head(list), sgn) + SumSizes(Tail(list), m, sgn)

available_memory(fl, m, sgn) == SumSizes(fl, m, sgn)

used_memory(al, m, sgn) == SumSizes(al, m, sgn)

(***************************************************************************)
(* initialize_allocator                                                    *)
(***************************************************************************)
RoundedSize(_size) == ((_size + (ALIGNMENT - 1)) \div ALIGNMENT) * ALIGNMENT

\* byte i of the little-endian representation of the size_t v
RECURSIVE ByteAt(_, _)
ByteAt(v, i) == IF i = 0 THEN v % 256 ELSE ByteAt(v \div 256, i - 1)

\* memset(ptr, 0, total_size), then the size_t store of myalloc.size at the buffer's start
InitialBuffer(rounded) ==
    [i \in {j \in 0..(HEADER_SIZE - 1) : ByteAt(rounded, j) # 0} |-> ByteAt(rounded, i)]

initialize_allocator(_size, _aalgorithm) ==
    /\ phase = "uninit"
    /\ _size > 0
    /\ phase' = "ready"
    /\ aalgorithm' = _aalgorithm
    /\ size' = RoundedSize(_size)
    /\ mem' = InitialBuffer(RoundedSize(_size))
    /\ allocated_list' = <<>>
    /\ free_list' = <<HEADER_SIZE>>
    /\ avail_mem' = RoundedSize(_size)
    /\ used_mem' = 0
    /\ live' = {}
    /\ ncalls' = 0
    /\ last' = [op |-> "initialize", arg |-> _size, ret |-> NULL]
    /\ lock' = NoThread
    /\ UNCHANGED <<char_signed, pc, dest, _before, _after, on_entry>>

Init ==
    /\ phase = "uninit"
    /\ char_signed \in BOOLEAN
    /\ aalgorithm = "FIRST_FIT"
    /\ size = 0
    /\ mem = <<>>
    /\ free_list = <<>>
    /\ allocated_list = <<>>
    /\ avail_mem = 0
    /\ used_mem = 0
    /\ live = {}
    /\ ncalls = 0
    /\ last = [op |-> "none", arg |-> 0, ret |-> NULL]
    /\ lock = NoThread
    /\ pc = [t \in Threads |-> "idle"]
    /\ dest = [t \in Threads |-> IndeterminateDest]
    /\ _before = <<>>
    /\ _after = <<>>
    /\ on_entry = [called |-> FALSE, allocated_list |-> <<>>, free_list |-> <<>>,
                   mem |-> <<>>]

(***************************************************************************)
(* allocate: the search of the free list, one loop per algorithm.  Each    *)
(* scan walks the list from node i on and carries ptr, the block chosen so *)
(* far (NULL when none is).                                                *)
(***************************************************************************)
\* FirstFitScan without the test curr_free_size >= _size
FirstFitScan_NoSizeTest(fl, m, sgn, _size, i) ==
    IF i > Len(fl) THEN NULL ELSE fl[i]

\* FirstFitScan without the break: the last chunk that is big enough wins
FirstFitScan_NoBreak(fl, m, sgn, _size, i) ==
    LET big == {j \in i..Len(fl) : ChunkSize(m, fl[j], sgn) >= _size}
    IN  IF big = {} THEN NULL
        ELSE fl[CHOOSE j \in big : \A k \in big : k <= j]

RECURSIVE FirstFitScan(_, _, _, _, _)
FirstFitScan(fl, m, sgn, _size, i) ==
    IF i > Len(fl) THEN NULL
    ELSE IF ChunkSize(m, fl[i], sgn) >= _size THEN fl[i]
    ELSE FirstFitScan(fl, m, sgn, _size, i + 1)

\* BestFitReplaces with <= for <: the last of the smallest chunks wins
BestFitReplaces_OrEqual(m, sgn, curr_free_size, ptr) ==
    curr_free_size <= RawHeader(m, ptr, sgn)

\* the test that replaces ptr compares with the header of ptr read without abs
BestFitReplaces(m, sgn, curr_free_size, ptr) == curr_free_size < RawHeader(m, ptr, sgn)

RECURSIVE BestFitScan(_, _, _, _, _, _)
BestFitScan(fl, m, sgn, _size, i, ptr) ==
    IF i > Len(fl) THEN ptr
    ELSE LET curr_free_size == ChunkSize(m, fl[i], sgn)
             next == IF curr_free_size >= _size
                     THEN IF ptr = NULL THEN fl[i]
                          ELSE IF BestFitReplaces(m, sgn, curr_free_size, ptr) THEN fl[i]
                          ELSE ptr
                     ELSE ptr
         IN  BestFitScan(fl, m, sgn, _size, i + 1, next)

\* WorstFitReplaces with >= for >: the last of the largest chunks wins
WorstFitReplaces_OrEqual(m, sgn, curr_free_size, ptr) ==
    curr_free_size >= RawHeader(m, ptr, sgn)

WorstFitReplaces(m, sgn, curr_free_size, ptr) == curr_free_size > RawHeader(m, ptr, sgn)

RECURSIVE WorstFitScan(_, _, _, _, _, _)
WorstFitScan(fl, m, sgn, _size, i, ptr) ==
    IF i > Len(fl) THEN ptr
    ELSE LET curr_free_size == ChunkSize(m, fl[i], sgn)
             next == IF curr_free_size >= _size
                     THEN IF ptr = NULL THEN fl[i]
                          ELSE IF WorstFitReplaces(m, sgn, curr_free_size, ptr) THEN fl[i]
                          ELSE ptr
                     ELSE ptr
         IN  WorstFitScan(fl, m, sgn, _size, i + 1, next)

\* the switch on myalloc.aalgorithm: the block allocate chooses, or NULL
SelectChunk(alg, fl, m, sgn, _size) ==
    CASE alg = "FIRST_FIT" -> FirstFitScan(fl, m, sgn, _size, 1)
      [] alg = "BEST_FIT"  -> BestFitScan(fl, m, sgn, _size, 1, NULL)
      [] alg = "WORST_FIT" -> WorstFitScan(fl, m, sgn, _size, 1, NULL)

\* the free list and the buffer after the chosen chunk ptr is split or used whole
AllocSplits(leftover_free_space) == leftover_free_space > 8

AllocFreeList(fl, m, sgn, ptr, _size) ==
    LET leftover_free_space == ChunkSize(m, ptr, sgn) - _size
        chunk_free == List_findNode(fl, ptr)
    IN  IF AllocSplits(leftover_free_space)
        THEN [fl EXCEPT ![chunk_free] = ptr + _size + HEADER_SIZE]
        ELSE List_deleteNode(fl, chunk_free)

\* AllocBuffer without the store of _size in the header of the allocated chunk
AllocBuffer_KeepsHeader(m, sgn, ptr, _size) ==
    LET leftover_free_space == ChunkSize(m, ptr, sgn) - _size
    IN  IF AllocSplits(leftover_free_space)
        THEN WriteHeader(m, ptr + _size + HEADER_SIZE, leftover_free_space - HEADER_SIZE)
        ELSE m

AllocBuffer(m, sgn, ptr, _size) ==
    LET leftover_free_space == ChunkSize(m, ptr, sgn) - _size
    IN  IF AllocSplits(leftover_free_space)
        THEN WriteHeader(WriteHeader(m, ptr, _size),
                         ptr + _size + HEADER_SIZE, leftover_free_space - HEADER_SIZE)
        ELSE m

allocate(_size) ==
    /\ phase = "ready"
    /\ _size > 0
    /\ LET ptr == IF free_list = <<>> THEN NULL
                  ELSE SelectChunk(aalgorithm, free_list, mem, char_signed, _size)
       IN  IF ptr = NULL
           THEN /\ last' = [op |-> "allocate", arg |-> _size, ret |-> NULL]
                /\ UNCHANGED <<mem, free_list, allocated_list, avail_mem, used_mem, live>>
           ELSE /\ allocated_list' = List_insertHead(allocated_list, ptr)
                /\ free_list' = AllocFreeList(free_list, mem, char_signed, ptr, _size)
                /\ mem' = AllocBuffer(mem, char_signed, ptr, _size)
                /\ avail_mem' = available_memory(free_list', mem', char_signed)
                /\ used_mem' = used_memory(allocated_list', mem', char_signed)
                /\ live' = live \cup {ptr}
                /\ last' = [op |-> "allocate", arg |-> _size, ret |-> ptr]
    /\ UNCHANGED <<phase, char_signed, aalgorithm, size>>

(***************************************************************************)
(* deallocate                                                              *)
(***************************************************************************)
\* the first loop: the first free node whose block starts right after _ptr's chunk, or 0
RECURSIVE RightNeighbour(_, _, _, _)
RightNeighbour(fl, _ptr, _ptr_size, i) ==
    IF i > Len(fl) THEN 0
    ELSE IF fl[i] = _ptr + _ptr_size + HEADER_SIZE THEN i
    ELSE RightNeighbour(fl, _ptr, _ptr_size, i + 1)

\* the node the first loop leaves in curr when it finds no right neighbour: it
\* runs until curr is NULL
AfterFirstLoop(fl) == 0

\* the second loop: from node curr on, the first free node whose chunk ends right
\* before _ptr's header, or 0; while (curr) does not run for a NULL curr
RECURSIVE LeftNeighbour(_, _, _, _, _)
LeftNeighbour(fl, m, sgn, _ptr, curr) ==
    IF curr = 0 \/ curr > Len(fl) THEN 0
    ELSE IF _ptr = fl[curr] + ChunkSize(m, fl[curr], sgn) + HEADER_SIZE THEN curr
    ELSE LeftNeighbour(fl, m, sgn, _ptr, curr + 1)

\* the lists and the buffer after the left-neighbour merge (myalloc.c:237-249)
MergeLeftBuffer(m, sgn, fl, _ptr, curr) ==
    WriteHeader(m, fl[curr],
                ChunkSize(m, fl[curr], sgn) + HEADER_SIZE + ChunkSize(m, _ptr, sgn))

MergeLeftFreeList(fl, curr) == List_insertHead(List_deleteNode(fl, curr), fl[curr])

\* the lists and the buffer after the right-neighbour merge (myalloc.c:217-230)
MergeRightBuffer(m, sgn, fl, _ptr, curr) ==
    WriteHeader(m, _ptr, ChunkSize(m, _ptr, sgn) + HEADER_SIZE + ChunkSize(m, fl[curr], sgn))

\* MergeRightFreeList without the List_deleteNode of the right neighbour
MergeRightFreeList_KeepsNeighbour(fl, _ptr, curr) == List_insertHead(fl, _ptr)

MergeRightFreeList(fl, _ptr, curr) == List_insertHead(List_deleteNode(fl, curr), _ptr)

MergeRightAllocatedList(al, _ptr) == al

\* the lists after the final path (myalloc.c:254-256)
MoveAllocatedList(al, _ptr) == List_deleteNode(al, List_findNode(al, _ptr))

MoveFreeList(fl, _ptr) == List_insertHead(fl, _ptr)

deallocate(_ptr) ==
    /\ phase = "ready"
    /\ _ptr \in live
    /\ List_findNode(allocated_list, _ptr) # 0
    /\ LET _ptr_size == ChunkSize(mem, _ptr, char_signed)
           right == RightNeighbour(free_list, _ptr, _ptr_size, 1)
           left == LeftNeighbour(free_list, mem, char_signed, _ptr, AfterFirstLoop(free_list))
       IN  IF free_list = <<>>
           THEN UNCHANGED <<mem, free_list, allocated_list, avail_mem, used_mem>>
           ELSE IF right # 0
           THEN /\ mem' = MergeRightBuffer(mem, char_signed, free_list, _ptr, right)
                /\ free_list' = MergeRightFreeList(free_list, _ptr, right)
                /\ allocated_list' = MergeRightAllocatedList(allocated_list, _ptr)
                /\ avail_mem' = available_memory(free_list', mem', char_signed)
                /\ used_mem' = used_memory(allocated_list', mem', char_signed)
           ELSE IF left # 0
           THEN /\ mem' = MergeLeftBuffer(mem, char_signed, free_list, _ptr, left)
                /\ free_list' = MergeLeftFreeList(free_list, left)
                /\ allocated_list' = allocated_list
                /\ avail_mem' = available_memory(free_list', mem', char_signed)
                /\ used_mem' = used_memory(allocated_list', mem', char_signed)
           ELSE /\ mem' = mem
                /\ allocated_list' = MoveAllocatedList(allocated_list, _ptr)
                /\ free_list' = MoveFreeList(free_list, _ptr)
                /\ avail_mem' = available_memory(free_list', mem', char_signed)
                /\ used_mem' = used_memory(allocated_list', mem', char_signed)
    /\ live' = live \ {_ptr}
    /\ last' = [op |-> "deallocate", arg |-> _ptr, ret |-> NULL]
    /\ UNCHANGED <<phase, char_signed, aalgorithm, size>>

(***************************************************************************)
(* is_fragmented.  It takes no lock.  With more than one free node it      *)
(* looks for two free chunks that touch and merges them; the search keeps  *)
(* the last match of the first node that has one.                          *)
(***************************************************************************)
\* what the search carries: the nodes current and adjacent, and has_adj
NoAdjacent == [current |-> 0, adjacent |-> 0, has_adj |-> 0]

\* the inner loop: node c against every later node, from node n on
RECURSIVE AdjacentInner(_, _, _, _, _, _)
AdjacentInner(fl, m, sgn, c, n, found) ==
    IF n > Len(fl) THEN found
    ELSE LET size_curr_free == ChunkSize(m, fl[c], sgn)
             size_next_free == ChunkSize(m, fl[n], sgn)
             right == IF fl[n] = fl[c] + size_curr_free + HEADER_SIZE
                      THEN [current |-> c, adjacent |-> n, has_adj |-> 2]
                      ELSE found
             left == IF fl[c] = fl[n] + size_next_free + HEADER_SIZE
                     THEN [current |-> c, adjacent |-> n, has_adj |-> 1]
                     ELSE right
         IN  AdjacentInner(fl, m, sgn, c, n + 1, left)

\* the outer loop: while (curr_free && has_adj == 0), from node c on
RECURSIVE AdjacentOuter(_, _, _, _, _)
AdjacentOuter(fl, m, sgn, c, found) ==
    IF c > Len(fl) \/ found.has_adj # 0 THEN found
    ELSE AdjacentOuter(fl, m, sgn, c + 1, AdjacentInner(fl, m, sgn, c, c + 1, found))

FindAdjacent(fl, m, sgn) == AdjacentOuter(fl, m, sgn, 1, NoAdjacent)

\* the size the merged chunk gets
MergedSize(fl, m, sgn, found) ==
    ChunkSize(m, fl[found.current], sgn) + HEADER_SIZE + ChunkSize(m, fl[found.adjacent], sgn)

\* the buffer is_fragmented leaves
IsFragmentedBuffer(fl, m, sgn) ==
    IF List_countNodes(fl) > 1
    THEN LET found == FindAdjacent(fl, m, sgn)
         IN  IF found.has_adj = 2
             THEN WriteHeader(m, fl[found.current], MergedSize(fl, m, sgn, found))
             ELSE IF found.has_adj = 1
             THEN WriteHeader(m, fl[found.adjacent], MergedSize(fl, m, sgn, found))
             ELSE m
    ELSE m

\* IsFragmentedFreeList without the List_deleteNode of the absorbed chunk
IsFragmentedFreeList_NoDelete(fl, m, sgn) == fl

\* the free list is_fragmented leaves
IsFragmentedFreeList(fl, m, sgn) ==
    IF List_countNodes(fl) > 1
    THEN LET found == FindAdjacent(fl, m, sgn)
         IN  IF found.has_adj = 2 THEN List_deleteNode(fl, found.adjacent)
             ELSE IF found.has_adj = 1 THEN List_deleteNode(fl, found.current)
             ELSE fl
    ELSE fl

\* IsFragmentedReturn without the comparison with the allocated blocks
IsFragmentedReturn_AnyChunk(fl, al) == List_countNodes(fl) > 0

\* what is_fragmented returns
IsFragmentedReturn(fl, al) ==
    IF List_countNodes(fl) = 0 THEN FALSE
    ELSE IF List_countNodes(fl) > 1 THEN TRUE
    ELSE \E i \in 1..Len(al) : fl[1] < al[i]

\* the C value of a bool
BoolInt(b) == IF b THEN 1 ELSE 0

is_fragmented ==
    /\ phase = "ready"
    /\ mem' = IsFragmentedBuffer(free_list, mem, char_signed)
    /\ free_list' = IsFragmentedFreeList(free_list, mem, char_signed)
    /\ last' = [op |-> "is_fragmented", arg |-> NULL,
                ret |-> BoolInt(IsFragmentedReturn(free_list, allocated_list))]
    /\ UNCHANGED <<phase, char_signed, aalgorithm, size, allocated_list, avail_mem,
                   used_mem, live>>

(***************************************************************************)
(* The mutex myalloc.lock.  A thread that calls allocate, deallocate or    *)
(* compact_allocation first takes it, which waits until no thread holds    *)
(* it, and gives it back before every return.                              *)
(***************************************************************************)
\* MutexFree for a lock that never makes a thread wait
MutexFree_Always(l) == TRUE

\* pthread_mutex_lock returns once no thread holds the mutex
MutexFree(l) == l = NoThread

\* the pthread_mutex_lock at the start of the call op, by thread t
thread_lock(t, op) ==
    /\ phase = "ready"
    /\ pc[t] = "idle"
    /\ MutexFree(lock)
    /\ lock' = t
    /\ pc' = [pc EXCEPT ![t] = op]
    /\ UNCHANGED <<phase, char_signed, aalgorithm, size, mem, free_list, allocated_list,
                   avail_mem, used_mem, live, last, dest, _before, _after, on_entry>>

\* a thread calls op and arrives at its pthread_mutex_lock, where it waits
Waiting(op) == IF op = "allocate" THEN "lock_allocate" ELSE "lock_deallocate"

thread_call(t, op) ==
    /\ phase = "ready"
    /\ pc[t] = "idle"
    /\ pc' = [pc EXCEPT ![t] = Waiting(op)]
    /\ UNCHANGED <<phase, char_signed, aalgorithm, size, mem, free_list, allocated_list,
                   avail_mem, used_mem, live, last, lock, dest, _before, _after, on_entry>>

\* the pthread_mutex_lock of a waiting thread returns
thread_acquire(t, op) ==
    /\ pc[t] = Waiting(op)
    /\ MutexFree(lock)
    /\ lock' = t
    /\ pc' = [pc EXCEPT ![t] = op]
    /\ UNCHANGED <<phase, char_signed, aalgorithm, size, mem, free_list, allocated_list,
                   avail_mem, used_mem, live, last, ncalls, dest, _before, _after, on_entry>>

\* a return that leaves the mutex locked
thread_unlock_KeepsLock(t) ==
    /\ lock' = lock
    /\ pc' = [pc EXCEPT ![t] = "idle"]

\* the pthread_mutex_unlock before a return
thread_unlock(t) ==
    /\ lock' = NoThread
    /\ pc' = [pc EXCEPT ![t] = "idle"]

(***************************************************************************)
(* compact_allocation, by the thread t that has taken the lock, in four    *)
(* steps: the entry up to the loop, the loop's test (a call of             *)
(* is_fragmented), the loop's body, and the code after the loop.           *)
(***************************************************************************)
\* memmove(d, s, n) on the buffer m
Memmove(m, d, s, n) ==
    LET val(j) == IF j >= d /\ j < d + n THEN ReadByte(m, s + (j - d)) ELSE ReadByte(m, j)
        D == {j \in DOMAIN m \cup d..(d + n - 1) : val(j) # 0}
    IN  [j \in D |-> val(j)]

\* CompactNoOp without any of the early returns
CompactNoOp_Never(um, am, al, fl) == FALSE

\* the early returns of myalloc.c:376-403, with the value 0
CompactNoOp(um, am, al, fl) == um = 0 \/ am = 0 \/ al = <<>> \/ fl = <<>>

compact_enter(t) ==
    /\ pc[t] = "compact_allocation"
    /\ IF CompactNoOp(used_mem, avail_mem, allocated_list, free_list)
       THEN /\ last' = [op |-> "compact_allocation", arg |-> NULL, ret |-> 0]
            /\ thread_unlock(t)
            /\ UNCHANGED dest
       ELSE /\ pc' = [pc EXCEPT ![t] = "while"]
            /\ UNCHANGED lock
            /\ dest' = [dest EXCEPT ![t] = IndeterminateDest]
            /\ last' = [op |-> "compact_enter", arg |-> NULL, ret |-> NULL]
    /\ _before' = <<>>
    /\ _after' = <<>>
    /\ on_entry' = [called |-> TRUE, allocated_list |-> allocated_list,
                    free_list |-> free_list, mem |-> mem]
    /\ UNCHANGED <<phase, char_signed, aalgorithm, size, mem, free_list, allocated_list,
                   avail_mem, used_mem, live>>

\* while (is_fragmented())
compact_test(t) ==
    /\ pc[t] = "while"
    /\ mem' = IsFragmentedBuffer(free_list, mem, char_signed)
    /\ free_list' = IsFragmentedFreeList(free_list, mem, char_signed)
    /\ pc' = [pc EXCEPT ![t] = IF IsFragmentedReturn(free_list, allocated_list)
                               THEN "body" ELSE "update"]
    /\ UNCHANGED <<phase, char_signed, aalgorithm, size, allocated_list, avail_mem,
                   used_mem, live, last, lock, dest, _before, _after, on_entry>>

\* the free node with the lowest block, the earliest of them
LeftmostFree(fl) ==
    CHOOSE i \in 1..Len(fl) :
        /\ \A j \in 1..Len(fl) : fl[i] <= fl[j]
        /\ \A j \in 1..(i - 1) : fl[j] # fl[i]

\* the node adjacent: the head of the allocated list if its block is above the
\* leftmost free block, else NULL; the if of myalloc.c:428 looks at no other node
AdjacentAllocated(al, fl) ==
    IF al # <<>> /\ al[1] > fl[LeftmostFree(fl)] THEN 1 ELSE 0

\* the address the body calls end_where_new_free_starts
EndWhereNewFreeStarts(al, fl, m, sgn) ==
    (fl[LeftmostFree(fl)] - HEADER_SIZE) + ChunkSize(m, al[1], sgn) + HEADER_SIZE

CompactBodyFreeList(al, fl, m, sgn) ==
    LET rest == List_deleteNode(fl, LeftmostFree(fl))
        end == EndWhereNewFreeStarts(al, fl, m, sgn)
    IN  IF List_findNode(rest, end) = 0 THEN List_insertHead(rest, end) ELSE rest

CompactBodyBuffer(al, fl, m, sgn) ==
    LET d == fl[LeftmostFree(fl)] - HEADER_SIZE
        src == al[1] - HEADER_SIZE
        size_dest == ChunkSize(m, fl[LeftmostFree(fl)], sgn)
        size_src == ChunkSize(m, al[1], sgn)
        moved == Memmove(m, d, src, size_src)
        rest == List_deleteNode(fl, LeftmostFree(fl))
        end == EndWhereNewFreeStarts(al, fl, m, sgn)
    IN  IF List_findNode(rest, end) = 0 THEN WriteHeader(moved, end, size_dest) ELSE moved

compact_body(t) ==
    /\ pc[t] = "body"
    /\ IF AdjacentAllocated(allocated_list, free_list) # 0
       THEN /\ dest' = [dest EXCEPT ![t] = {free_list[LeftmostFree(free_list)] - HEADER_SIZE}]
            /\ free_list' = CompactBodyFreeList(allocated_list, free_list, mem, char_signed)
            /\ mem' = CompactBodyBuffer(allocated_list, free_list, mem, char_signed)
       ELSE UNCHANGED <<dest, free_list, mem>>
    /\ pc' = [pc EXCEPT ![t] = "while"]
    /\ UNCHANGED <<phase, char_signed, aalgorithm, size, allocated_list, avail_mem,
                   used_mem, live, last, lock, _before, _after, on_entry>>

\* arr[k] = v, on an array of which the slots 0 .. Len(arr) - 1 have been written
WriteSlot(arr, k, v) == IF k >= Len(arr) THEN Append(arr, v) ELSE [arr EXCEPT ![k + 1] = v]

\* UpdateAlloc without the test _before[compacted_size] != _after[compacted_size]:
\* every node is counted
RECURSIVE UpdateAlloc_CountsAll(_, _, _, _, _, _)
UpdateAlloc_CountsAll(al, d, i, compacted_size, b, a) ==
    IF i > Len(al) THEN [compacted_size |-> compacted_size, _before |-> b, _after |-> a]
    ELSE UpdateAlloc_CountsAll(al, d, i + 1, compacted_size + 1,
                               WriteSlot(b, compacted_size, al[i]),
                               WriteSlot(a, compacted_size, d + HEADER_SIZE))

\* the loop after the while loop, from node i on, with dest holding d: what it
\* leaves in compacted_size, _before and _after
RECURSIVE UpdateAlloc(_, _, _, _, _, _)
UpdateAlloc(al, d, i, compacted_size, b, a) ==
    IF i > Len(al) THEN [compacted_size |-> compacted_size, _before |-> b, _after |-> a]
    ELSE UpdateAlloc(al, d, i + 1,
                     IF al[i] # d + HEADER_SIZE THEN compacted_size + 1 ELSE compacted_size,
                     WriteSlot(b, compacted_size, al[i]),
                     WriteSlot(a, compacted_size, d + HEADER_SIZE))

\* the block every node of the allocated list gets
UpdatedBlocks(al, d) == [i \in 1..Len(al) |-> d + HEADER_SIZE]

compact_update(t) ==
    /\ pc[t] = "update"
    /\ \E d \in dest[t] :
          LET r == UpdateAlloc(allocated_list, d, 1, 0, _before, _after)
          IN  /\ allocated_list' = UpdatedBlocks(allocated_list, d)
              /\ _before' = r._before
              /\ _after' = r._after
              /\ last' = [op |-> "compact_allocation", arg |-> NULL,
                          ret |-> r.compacted_size]
    /\ avail_mem' = available_memory(free_list, mem, char_signed)
    /\ used_mem' = used_memory(allocated_list', mem, char_signed)
    /\ thread_unlock(t)
    /\ dest' = [dest EXCEPT ![t] = IndeterminateDest]
    /\ UNCHANGED <<phase, char_signed, aalgorithm, size, mem, free_list, live, on_entry>>

(***************************************************************************)
(* The caller: any capacity and algorithm, then at most MaxCalls calls of  *)
(* allocate and of deallocate on a pointer it holds.                       *)
(***************************************************************************)
\* a call that runs from its pthread_mutex_lock to its return in one step: the
\* lock is free before it and after it
WholeCall == lock = NoThread /\ pc[MainThread] = "idle" /\ UNCHANGED callvars

Counted == ncalls < MaxCalls /\ ncalls' = ncalls + 1 /\ WholeCall

InitializeCall == \E c \in 1..MaxCapacity, a \in Algorithms : initialize_allocator(c, a)

AllocateCall == \E s \in ReqSizes : Counted /\ allocate(s)

DeallocateCall == \E p \in live : Counted /\ deallocate(p)

Next ==
    \/ InitializeCall
    \/ AllocateCall
    \/ DeallocateCall

Spec == Init /\ [][Next]_vars

(***************************************************************************)
(* The caller that fills the arena and then gives everything back: calls   *)
(* of allocate until the free list is empty, and from then on only calls   *)
(* of deallocate, on the pointers it holds, in any order.                  *)
(***************************************************************************)
CountedExhaust == ncalls < MaxExhaustCalls /\ ncalls' = ncalls + 1 /\ WholeCall

FillCall ==
    /\ last.op \in {"initialize", "allocate"}
    /\ free_list # <<>>
    /\ \E s \in ReqSizes : CountedExhaust /\ allocate(s)

DrainCall ==
    /\ \/ last.op = "allocate" /\ free_list = <<>>
       \/ last.op = "deallocate"
    /\ \E p \in live : CountedExhaust /\ deallocate(p)

NextExhaust ==
    \/ InitializeCall
    \/ FillCall
    \/ DrainCall

SpecExhaust == Init /\ [][NextExhaust]_vars

(***************************************************************************)
(* The caller that only calls allocate, with the same size every time.     *)
(* The calls never stop, as the fairness condition says.                   *)
(***************************************************************************)
RepeatCall ==
    \E s \in ReqSizes :
        /\ last.op = "initialize" \/ (last.op = "allocate" /\ last.arg = s)
        /\ allocate(s)
        /\ WholeCall
        /\ UNCHANGED ncalls

NextRepeat ==
    \/ InitializeCall
    \/ RepeatCall

SpecRepeat == Init /\ [][NextRepeat]_vars /\ WF_vars(NextRepeat)

(***************************************************************************)
(* The caller that compacts: calls of allocate, deallocate and             *)
(* is_fragmented, then one call of compact_allocation as main.c makes it,  *)
(* and after it calls of is_fragmented only.  A thread inside              *)
(* compact_allocation keeps running, as the fairness condition says.       *)
(***************************************************************************)
CountedCompact ==
    /\ ~on_entry.called
    /\ ncalls < MaxCompactCalls
    /\ ncalls' = ncalls + 1
    /\ WholeCall

CompactAllocateCall == \E s \in CompactSizes : CountedCompact /\ allocate(s)

CompactDeallocateCall == \E p \in live : CountedCompact /\ deallocate(p)

IsFragmentedCall == CountedCompact /\ is_fragmented

CompactCall ==
    /\ ~on_entry.called
    /\ thread_lock(MainThread, "compact_allocation")
    /\ UNCHANGED ncalls

CompactEnterStep == compact_enter(MainThread) /\ UNCHANGED ncalls

CompactTestStep == compact_test(MainThread) /\ UNCHANGED ncalls

CompactBodyStep == compact_body(MainThread) /\ UNCHANGED ncalls

CompactUpdateStep == compact_update(MainThread) /\ UNCHANGED ncalls

\* is_fragmented once compact_allocation has returned
RecheckCall ==
    /\ on_entry.called
    /\ pc[MainThread] = "idle"
    /\ is_fragmented
    /\ UNCHANGED <<ncalls, lock, pc, dest, _before, _after, on_entry>>

CompactRuns == CompactEnterStep \/ CompactTestStep \/ CompactBodyStep \/ CompactUpdateStep

NextCompact ==
    \/ InitializeCall
    \/ CompactAllocateCall
    \/ CompactDeallocateCall
    \/ IsFragmentedCall
    \/ CompactCall
    \/ CompactEnterStep
    \/ CompactTestStep
    \/ CompactBodyStep
    \/ CompactUpdateStep
    \/ RecheckCall

SpecCompact == Init /\ [][NextCompact]_vars /\ WF_vars(CompactRuns)

(***************************************************************************)
(* What the properties below speak of.                                     *)
(***************************************************************************)
\* the chunks the two registries record: a list's name and a node of it
FreeChunks == {<<"free", i>> : i \in 1..Len(free_list)}

AllocatedChunks == {<<"allocated", i>> : i \in 1..Len(allocated_list)}

BlockOf(c) == IF c[1] = "free" THEN free_list[c[2]] ELSE allocated_list[c[2]]

\* the footprint of a chunk: its 8-byte header and its payload
Footprint(c) ==
    (BlockOf(c) - HEADER_SIZE)..(BlockOf(c) + ChunkSize(mem, BlockOf(c), char_signed) - 1)

Blocks(list) == {list[i] : i \in 1..Len(list)}

(***************************************************************************)
(* C1: after initialize and any sequence of allocate and deallocate calls, *)
(* the footprints (header plus payload) of the chunks of the Free Registry *)
(* and the Allocated Registry are pairwise disjoint, within a registry and *)
(* across the two.                                                         *)
(***************************************************************************)
C1_FootprintsDisjoint ==
    phase = "ready" =>
        \A c, d \in FreeChunks \cup AllocatedChunks :
            c # d => Footprint(c) \cap Footprint(d) = {}

(***************************************************************************)
(* C2: after initialize and any sequence of allocate and deallocate calls, *)
(* used_memory() + available_memory() is at most the rounded capacity.     *)
(***************************************************************************)
C2_UsedPlusAvailableBounded ==
    phase = "ready" =>
        used_memory(allocated_list, mem, char_signed)
            + available_memory(free_list, mem, char_signed) <= size

(***************************************************************************)
(* C3: in every reachable state no chunk address is in the Free Registry   *)
(* and in the Allocated Registry at the same time.                         *)
(***************************************************************************)
C3_RegistriesDisjoint == Blocks(free_list) \cap Blocks(allocated_list) = {}

(***************************************************************************)
(* C4: when deallocate(address) returns, address is no longer in the       *)
(* Allocated Registry and its bytes (the payload it had when the call was  *)
(* made) lie in a chunk of the Free Registry.                              *)
(***************************************************************************)
C4_DeallocateFrees ==
    [][last'.op = "deallocate" =>
        /\ List_findNode(allocated_list', last'.arg) = 0
        /\ \E i \in 1..Len(free_list') :
              /\ free_list'[i] <= last'.arg
              /\ last'.arg + ChunkSize(mem, last'.arg, char_signed)
                    <= free_list'[i] + ChunkSize(mem', free_list'[i], char_signed)]_vars

(***************************************************************************)
(* C5: when calls of allocate have emptied the Free Registry and every     *)
(* allocated address has then been deallocated, in any order, the          *)
(* Allocated Registry is empty and the Free Registry holds one chunk of    *)
(* the rounded capacity: available_memory() is the rounded capacity and    *)
(* used_memory() is 0.  (Checked under SpecExhaust, whose calls of         *)
(* deallocate all follow the exhaustion.)                                  *)
(***************************************************************************)
C5_ExhaustThenFreeAllRestores ==
    (last.op = "deallocate" /\ live = {}) =>
        /\ allocated_list = <<>>
        /\ Len(free_list) = 1
        /\ ChunkSize(mem, free_list[1], char_signed) = size
        /\ available_memory(free_list, mem, char_signed) = size
        /\ used_memory(allocated_list, mem, char_signed) = 0

(***************************************************************************)
(* C6: a call allocate(size) made when no chunk of the Free Registry has a *)
(* size >= size (an empty Free Registry included) returns null and leaves  *)
(* both registries, every header and the two counters unchanged.           *)
(***************************************************************************)
NoneEligible(_size) ==
    \A i \in 1..Len(free_list) : ChunkSize(mem, free_list[i], char_signed) < _size

C6_FailedAllocateChangesNothing ==
    [][(last'.op = "allocate" /\ NoneEligible(last'.arg)) =>
        /\ last'.ret = NULL
        /\ UNCHANGED <<free_list, allocated_list, mem, avail_mem, used_mem>>]_vars

\* a failed call with chunks in both registries, and one with an empty Free Registry
C6_Witness ==
    /\ last.op = "allocate" /\ last.ret = NULL /\ last.arg <= size
    /\ free_list # <<>> /\ allocated_list # <<>>
    /\ NoneEligible(last.arg)

(***************************************************************************)
(* C7: after initialize(100, BestFit), capacity 128, in a run that only    *)
(* calls allocate(16): some call returns null, every call after a call     *)
(* that returned null returns null, and used_memory() + available_memory() *)
(* never exceeds 128.  (Checked under SpecRepeat.)                         *)
(***************************************************************************)
Repeat16 ==
    /\ phase = "ready" /\ size = 128 /\ aalgorithm = "BEST_FIT"
    /\ last.op = "allocate" /\ last.arg = 16

C7_RepeatedAllocateFails ==
    /\ [](Repeat16 => <>(last.ret = NULL))
    /\ [][(Repeat16 /\ last.ret = NULL) => last'.ret = NULL]_vars
    /\ [](Repeat16 =>
            used_memory(allocated_list, mem, char_signed)
                + available_memory(free_list, mem, char_signed) <= 128)

\* the call that fails: the sixth, after five chunks of 16 bytes were handed out
C7_Witness ==
    /\ Repeat16 /\ last.ret = NULL
    /\ Len(allocated_list) = 5
    /\ used_memory(allocated_list, mem, char_signed) = 80

(***************************************************************************)
(* C8: immediately after initialize(capacity, strategy) the arena size is  *)
(* the smallest multiple of 64 that is >= capacity, the Free Registry      *)
(* holds exactly one chunk, at the first payload address and of that size, *)
(* the Allocated Registry is empty, available memory is the rounded        *)
(* capacity and used memory is 0.                                          *)
(***************************************************************************)
IsRoundedCapacity(r, capacity) ==
    /\ r % 64 = 0
    /\ r >= capacity
    /\ r - 64 < capacity

C8_InitialState ==
    last.op = "initialize" =>
        /\ IsRoundedCapacity(size, last.arg)
        /\ free_list = <<HEADER_SIZE>>
        /\ ChunkSize(mem, free_list[1], char_signed) = size
        /\ allocated_list = <<>>
        /\ avail_mem = size
        /\ available_memory(free_list, mem, char_signed) = size
        /\ used_mem = 0
        /\ used_memory(allocated_list, mem, char_signed) = 0

(***************************************************************************)
(* C9: under BestFit, when some free chunk has a size >= the requested     *)
(* size, allocate chooses a chunk whose size is the least among the        *)
(* eligible chunks and, among the eligible chunks of that size, the one    *)
(* that comes first in the free list.                                      *)
(***************************************************************************)
Eligible(_size) ==
    {i \in 1..Len(free_list) : ChunkSize(mem, free_list[i], char_signed) >= _size}

FreeSize(i) == ChunkSize(mem, free_list[i], char_signed)

SmallestEarliest(_size) ==
    CHOOSE i \in Eligible(_size) :
        \A j \in Eligible(_size) :
            FreeSize(i) < FreeSize(j) \/ (FreeSize(i) = FreeSize(j) /\ i <= j)

C9_BestFitChoice ==
    [][(last'.op = "allocate" /\ aalgorithm = "BEST_FIT" /\ Eligible(last'.arg) # {}) =>
        last'.ret = free_list[SmallestEarliest(last'.arg)]]_vars

\* the chunk allocate returned was used whole: no free chunk starts where a
\* remainder would
UsedWhole ==
    /\ last.op = "allocate" /\ last.ret # NULL
    /\ List_findNode(free_list, last.ret + last.arg + HEADER_SIZE) = 0

\* BestFit chose among two chunks of the least size and a larger eligible one
C9_Witness ==
    /\ aalgorithm = "BEST_FIT" /\ UsedWhole
    /\ \E i, j \in 1..Len(free_list) :
          /\ FreeSize(i) = ChunkSize(mem, last.ret, char_signed)
          /\ FreeSize(j) > ChunkSize(mem, last.ret, char_signed)

(***************************************************************************)
(* C10: under WorstFit, when some free chunk has a size >= the requested   *)
(* size, allocate chooses a chunk whose size is the greatest among the     *)
(* eligible chunks and, among the eligible chunks of that size, the one    *)
(* that comes first in the free list.                                      *)
(***************************************************************************)
LargestEarliest(_size) ==
    CHOOSE i \in Eligible(_size) :
        \A j \in Eligible(_size) :
            FreeSize(i) > FreeSize(j) \/ (FreeSize(i) = FreeSize(j) /\ i <= j)

C10_WorstFitChoice ==
    [][(last'.op = "allocate" /\ aalgorithm = "WORST_FIT" /\ Eligible(last'.arg) # {}) =>
        last'.ret = free_list[LargestEarliest(last'.arg)]]_vars

\* WorstFit chose among two chunks of the greatest size and a smaller eligible one
C10_Witness ==
    /\ aalgorithm = "WORST_FIT" /\ UsedWhole
    /\ \E i, j \in 1..Len(free_list) :
          /\ FreeSize(i) = ChunkSize(mem, last.ret, char_signed)
          /\ FreeSize(j) < ChunkSize(mem, last.ret, char_signed)
          /\ FreeSize(j) >= last.arg

(***************************************************************************)
(* C11: under FirstFit, allocate chooses the first chunk of the free list  *)
(* whose size is >= the requested size, whatever the sizes of the later    *)
(* chunks; when that chunk is larger than a later eligible chunk, BestFit  *)
(* chooses a later chunk instead.                                          *)
(***************************************************************************)
FirstEligible(_size) ==
    CHOOSE i \in Eligible(_size) : \A j \in Eligible(_size) : i <= j

LaterTighter(_size) ==
    \E j \in Eligible(_size) :
        j > FirstEligible(_size) /\ FreeSize(j) < FreeSize(FirstEligible(_size))

C11_FirstFitChoice ==
    [][(last'.op = "allocate" /\ Eligible(last'.arg) # {}) =>
        /\ aalgorithm = "FIRST_FIT" =>
              last'.ret = free_list[FirstEligible(last'.arg)]
        /\ (aalgorithm = "BEST_FIT" /\ LaterTighter(last'.arg)) =>
              /\ last'.ret # free_list[FirstEligible(last'.arg)]
              /\ List_findNode(free_list, last'.ret) > FirstEligible(last'.arg)]_vars

\* FirstFit split a chunk although a later chunk was eligible and tighter: the
\* remainder is at node i and the tighter chunk at a later node j
C11_Witness ==
    /\ aalgorithm = "FIRST_FIT" /\ last.op = "allocate" /\ last.ret # NULL
    /\ \E i, j \in 1..Len(free_list) :
          /\ free_list[i] = last.ret + last.arg + HEADER_SIZE
          /\ j > i
          /\ FreeSize(j) >= last.arg
          /\ FreeSize(j) < last.arg + HEADER_SIZE + FreeSize(i)

(***************************************************************************)
(* C19: when allocate(size) chooses a free chunk at address a of size c    *)
(* with c - size > 8, then after the call the Allocated Registry holds a   *)
(* chunk at a whose header is size, the same free-list entry has address   *)
(* a + size + 8 and header c - size - 8, the number of free chunks is      *)
(* unchanged, used memory grew by size and available memory shrank by      *)
(* size + 8.                                                               *)
(***************************************************************************)
\* the size, before the call, of the chunk a call of allocate returned
ChosenSize == ChunkSize(mem, last'.ret, char_signed)

C19_Split ==
    [][(last'.op = "allocate" /\ last'.ret # NULL /\ ChosenSize - last'.arg > 8) =>
        LET a == last'.ret
            n == List_findNode(free_list, a)
        IN  /\ List_findNode(allocated_list', a) # 0
            /\ ChunkSize(mem', a, char_signed) = last'.arg
            /\ Len(free_list') = Len(free_list)
            /\ free_list'[n] = a + last'.arg + HEADER_SIZE
            /\ ChunkSize(mem', free_list'[n], char_signed)
                  = ChosenSize - last'.arg - HEADER_SIZE
            /\ used_memory(allocated_list', mem', char_signed)
                  = used_memory(allocated_list, mem, char_signed) + last'.arg
            /\ available_memory(free_list', mem', char_signed)
                  = available_memory(free_list, mem, char_signed)
                      - (last'.arg + HEADER_SIZE)]_vars

(***************************************************************************)
(* C20: when allocate(size) chooses a free chunk of size c with            *)
(* c - size <= 8, the whole chunk is used: it leaves the Free Registry, no *)
(* remainder chunk is made, the allocated chunk keeps its address and its  *)
(* header c, used memory grows by c and available memory shrinks by c.     *)
(***************************************************************************)
C20_WholeChunk ==
    [][(last'.op = "allocate" /\ last'.ret # NULL /\ ChosenSize - last'.arg <= 8) =>
        LET a == last'.ret
        IN  /\ List_findNode(free_list', a) = 0
            /\ Len(free_list') = Len(free_list) - 1
            /\ Blocks(free_list') \subseteq Blocks(free_list)
            /\ List_findNode(allocated_list', a) # 0
            /\ ChunkSize(mem', a, char_signed) = ChosenSize
            /\ mem' = mem
            /\ used_memory(allocated_list', mem', char_signed)
                  = used_memory(allocated_list, mem, char_signed) + ChosenSize
            /\ available_memory(free_list', mem', char_signed)
                  = available_memory(free_list, mem, char_signed) - ChosenSize]_vars

(***************************************************************************)
(* The caller that coalesces: calls of allocate and deallocate, and calls  *)
(* of is_fragmented at any time, which never stop, as the fairness         *)
(* condition says.                                                         *)
(***************************************************************************)
CountedCoalesce == ncalls < MaxCoalesceCalls /\ ncalls' = ncalls + 1 /\ WholeCall

CoalesceAllocateCall == \E s \in CompactSizes : CountedCoalesce /\ allocate(s)

CoalesceDeallocateCall == \E p \in live : CountedCoalesce /\ deallocate(p)

CoalesceCall == is_fragmented /\ WholeCall /\ UNCHANGED ncalls

NextCoalesce ==
    \/ InitializeCall
    \/ CoalesceAllocateCall
    \/ CoalesceDeallocateCall
    \/ CoalesceCall

SpecCoalesce == Init /\ [][NextCoalesce]_vars /\ WF_vars(CoalesceCall)

(***************************************************************************)
(* The threads: each thread calls allocate, deallocate and                 *)
(* compact_allocation, one call after the other.  A call is the step that  *)
(* takes the lock, which waits until the lock is free, and then the steps  *)
(* of the body, up to the pthread_mutex_unlock before the return.          *)
(***************************************************************************)
CountedThread == ncalls < MaxThreadCalls /\ ncalls' = ncalls + 1

\* the pointers a thread may pass to deallocate
Deallocatable == {p \in live : List_findNode(allocated_list, p) # 0}

AllocateLock == \E t \in Threads : CountedThread /\ thread_lock(t, "allocate")

AllocateBody ==
    \E t \in Threads, s \in CompactSizes :
        /\ pc[t] = "allocate"
        /\ allocate(s)
        /\ thread_unlock(t)
        /\ UNCHANGED <<ncalls, dest, _before, _after, on_entry>>

DeallocateLock ==
    \E t \in Threads :
        /\ Deallocatable # {}
        /\ CountedThread
        /\ thread_lock(t, "deallocate")

DeallocateBody ==
    \E t \in Threads, p \in Deallocatable :
        /\ pc[t] = "deallocate"
        /\ deallocate(p)
        /\ thread_unlock(t)
        /\ UNCHANGED <<ncalls, dest, _before, _after, on_entry>>

CompactLock == \E t \in Threads : CountedThread /\ thread_lock(t, "compact_allocation")

CompactEnter == \E t \in Threads : compact_enter(t) /\ UNCHANGED ncalls

CompactTest == \E t \in Threads : compact_test(t) /\ UNCHANGED ncalls

CompactBody == \E t \in Threads : compact_body(t) /\ UNCHANGED ncalls

CompactUpdate == \E t \in Threads : compact_update(t) /\ UNCHANGED ncalls

NextThreads ==
    \/ InitializeCall
    \/ AllocateLock
    \/ AllocateBody
    \/ DeallocateLock
    \/ DeallocateBody
    \/ CompactLock
    \/ CompactEnter
    \/ CompactTest
    \/ CompactBody
    \/ CompactUpdate

SpecThreads == Init /\ [][NextThreads]_vars

(***************************************************************************)
(* The threads that call only allocate and deallocate, under fair          *)
(* scheduling: a call first waits at pthread_mutex_lock, then runs its     *)
(* critical section up to a return.  A thread that holds the lock goes on  *)
(* to its return, and a thread that waits gets the lock if the lock is     *)
(* free again and again.                                                   *)
(***************************************************************************)
MaxFairCalls == 3

\* the threads that have called deallocate and have not returned
InDeallocate == {t \in Threads : pc[t] \in {"lock_deallocate", "deallocate"}}

FairCalls(t) ==
    /\ ncalls < MaxFairCalls
    /\ ncalls' = ncalls + 1
    /\ \/ thread_call(t, "allocate")
       \/ /\ Cardinality(InDeallocate) < Cardinality(Deallocatable)
          /\ thread_call(t, "deallocate")

FairAcquires(t) == thread_acquire(t, "allocate") \/ thread_acquire(t, "deallocate")

FairAllocateReturns(t) ==
    \E s \in CompactSizes :
        /\ pc[t] = "allocate"
        /\ allocate(s)
        /\ thread_unlock(t)
        /\ UNCHANGED <<ncalls, dest, _before, _after, on_entry>>

FairDeallocateReturns(t) ==
    \E p \in Deallocatable :
        /\ pc[t] = "deallocate"
        /\ deallocate(p)
        /\ thread_unlock(t)
        /\ UNCHANGED <<ncalls, dest, _before, _after, on_entry>>

FairReturns(t) == FairAllocateReturns(t) \/ FairDeallocateReturns(t)

FairCall == \E t \in Threads : FairCalls(t)

FairAcquire == \E t \in Threads : FairAcquires(t)

FairAllocateReturn == \E t \in Threads : FairAllocateReturns(t)

FairDeallocateReturn == \E t \in Threads : FairDeallocateReturns(t)

NextFair ==
    \/ InitializeCall
    \/ FairCall
    \/ FairAcquire
    \/ FairAllocateReturn
    \/ FairDeallocateReturn

SpecFair ==
    /\ Init
    /\ [][NextFair]_vars
    /\ \A t \in Threads : SF_vars(FairAcquires(t)) /\ WF_vars(FairReturns(t))

(***************************************************************************)
(* The threads, one of which may also call is_fragmented itself at any     *)
(* time: is_fragmented takes no lock, so the call does not wait for the    *)
(* thread that holds it.                                                   *)
(***************************************************************************)
DirectIsFragmented ==
    \E t \in Threads :
        /\ pc[t] = "idle"
        /\ is_fragmented
        /\ UNCHANGED <<ncalls, lock, pc, dest, _before, _after, on_entry>>

NextRace ==
    \/ InitializeCall
    \/ AllocateLock
    \/ AllocateBody
    \/ DeallocateLock
    \/ DeallocateBody
    \/ CompactLock
    \/ CompactEnter
    \/ CompactTest
    \/ CompactBody
    \/ CompactUpdate
    \/ DirectIsFragmented

SpecRace == Init /\ [][NextRace]_vars

(***************************************************************************)
(* compact_allocation: the state it returns in.  on_entry holds the lists  *)
(* and the buffer of the call; node i of the allocated list is the same    *)
(* chunk before and after, since the call neither adds, removes nor        *)
(* reorders the nodes.                                                     *)
(***************************************************************************)
\* compact_allocation has just returned
CompactReturned == last.op = "compact_allocation" /\ pc[MainThread] = "idle"

UsedOnEntry == used_memory(on_entry.allocated_list, on_entry.mem, char_signed)

AvailableOnEntry == available_memory(on_entry.free_list, on_entry.mem, char_signed)

AllocatedSize(i) == ChunkSize(mem, allocated_list[i], char_signed)

\* C12: whenever compact_allocation returns from a state with used memory > 0 and
\* available memory > 0, the allocated chunks are a contiguous prefix of the arena
\* (one starts at the first payload address, every other one starts where an
\* allocated chunk ends plus the header) and the free list holds exactly one chunk,
\* above every allocated chunk.
C12_CompactedLayout ==
    (CompactReturned /\ UsedOnEntry > 0 /\ AvailableOnEntry > 0) =>
        /\ \E i \in 1..Len(allocated_list) : allocated_list[i] = HEADER_SIZE
        /\ \A i \in 1..Len(allocated_list) :
              \/ allocated_list[i] = HEADER_SIZE
              \/ \E j \in 1..Len(allocated_list) :
                    allocated_list[j] + AllocatedSize(j) + HEADER_SIZE = allocated_list[i]
        /\ Len(free_list) = 1
        /\ \A i \in 1..Len(allocated_list) : free_list[1] > allocated_list[i]

\* C13: a call of compact_allocation that has entered its loop returns, with the
\* lock released.
C13_CompactionTerminates ==
    (pc[MainThread] = "while") ~> (pc[MainThread] = "idle" /\ lock = NoThread)

\* the arena of the call was one free chunk at the first payload address, then the
\* only allocated chunk, then free chunks if any
HoleThenOneChunk ==
    /\ Len(on_entry.allocated_list) = 1
    /\ \E h \in 1..Len(on_entry.free_list) :
          /\ on_entry.free_list[h] = HEADER_SIZE
          /\ on_entry.allocated_list[1] =
                HEADER_SIZE + ChunkSize(on_entry.mem, HEADER_SIZE, char_signed) + HEADER_SIZE
          /\ \A k \in 1..Len(on_entry.free_list) :
                k # h => on_entry.free_list[k] > on_entry.allocated_list[1]

\* C14: compact_allocation on one hole followed by one allocated chunk returns 1,
\* with _before[0] the chunk's address and _after[0] the hole's address; then
\* is_fragmented returns false and the free list holds exactly one chunk, above the
\* allocated chunk.
C14_OneHoleOneChunk ==
    (CompactReturned /\ on_entry.called /\ HoleThenOneChunk) =>
        /\ last.ret = 1
        /\ Len(_before) >= 1 /\ _before[1] = on_entry.allocated_list[1]
        /\ Len(_after) >= 1 /\ _after[1] = HEADER_SIZE
        /\ ~IsFragmentedReturn(free_list, allocated_list)
        /\ Len(free_list) = 1
        /\ free_list[1] > allocated_list[1]

\* the nodes of the allocated list whose block the call changed, and the k-th of them
Moved == {i \in 1..Len(allocated_list) : allocated_list[i] # on_entry.allocated_list[i]}

RECURSIVE KthMoved(_, _)
KthMoved(k, from) ==
    LET i == CHOOSE i \in Moved : i >= from /\ \A j \in Moved : j >= from => i <= j
    IN  IF k = 1 THEN i ELSE KthMoved(k - 1, i + 1)

\* C15: compact_allocation returns the number n of allocated chunks whose address
\* it changed, and the first n slots of _before and _after hold, chunk by chunk
\* in list order, the address the chunk had and the address it has; a chunk that
\* kept its address has no pair.
C15_RelocationReport ==
    (CompactReturned /\ on_entry.called) =>
        /\ Len(allocated_list) = Len(on_entry.allocated_list)
        /\ last.ret = Cardinality(Moved)
        /\ Len(_before) >= last.ret
        /\ Len(_after) >= last.ret
        /\ \A k \in 1..last.ret :
              /\ _before[k] = on_entry.allocated_list[KthMoved(k, 1)]
              /\ _after[k] = allocated_list[KthMoved(k, 1)]

\* a call whose loop body has set dest, that reports one chunk and leaves another
\* one out
C15_Witness ==
    /\ CompactReturned
    /\ on_entry.called
    /\ last.ret >= 1
    /\ last.ret < Len(allocated_list)
    /\ (_after[1] - HEADER_SIZE) \notin IndeterminateDest

\* C16: compact_allocation keeps the allocated chunks: the allocated list has as
\* many nodes after the call as before it, every chunk has the size it had, and no
\* two nodes have the same address.
C16_IdentityPreserved ==
    (CompactReturned /\ on_entry.called) =>
        /\ Len(allocated_list) = Len(on_entry.allocated_list)
        /\ \A i \in 1..Len(allocated_list) :
              AllocatedSize(i) =
                  ChunkSize(on_entry.mem, on_entry.allocated_list[i], char_signed)
        /\ \A i, j \in 1..Len(allocated_list) :
              i # j => allocated_list[i] # allocated_list[j]

\* the step is the entry of compact_allocation, once it has the lock
CompactCalled == ~on_entry.called /\ on_entry'.called

\* C17: a call of compact_allocation made when used memory is 0 or available
\* memory is 0 returns 0 at once, writes no slot of _before or _after, and leaves
\* both lists and the buffer as they are.
C17_CompactNoOp ==
    [][(/\ CompactCalled
        /\ \/ used_memory(allocated_list, mem, char_signed) = 0
           \/ available_memory(free_list, mem, char_signed) = 0) =>
            /\ last'.op = "compact_allocation"
            /\ last'.ret = 0
            /\ pc'[MainThread] = "idle"
            /\ lock' = NoThread
            /\ _before' = <<>>
            /\ _after' = <<>>
            /\ free_list' = free_list
            /\ allocated_list' = allocated_list
            /\ mem' = mem]_vars

\* such a call with chunks allocated: the arena is used up
C17_Witness ==
    /\ CompactReturned
    /\ last.ret = 0
    /\ allocated_list # <<>>
    /\ free_list = <<>>
    /\ on_entry.allocated_list = allocated_list

(***************************************************************************)
(* The lock.                                                               *)
(***************************************************************************)
\* thread t is between the pthread_mutex_lock and the pthread_mutex_unlock of a
\* call of allocate, deallocate or compact_allocation
InCriticalSection(t) == pc[t] # "idle"

\* the step reads or writes the lists, the buffer or the counters on behalf of a call
RegistryStep ==
    \/ <<mem, free_list, allocated_list, avail_mem, used_mem>>' #
           <<mem, free_list, allocated_list, avail_mem, used_mem>>
    \/ last'.op \in {"allocate", "deallocate", "compact_allocation", "compact_enter"}
           /\ last' # last

\* C18: no two threads are at the same time inside the critical sections of
\* allocate, deallocate and compact_allocation, a thread inside one holds the lock,
\* and every step of such a call that touches the lists, the buffer or the
\* counters is made by the thread that holds the lock, which keeps it or gives it
\* back at the return.
C18_MutualExclusion ==
    /\ [](\A t \in Threads :
             InCriticalSection(t) =>
                 /\ lock = t
                 /\ \A u \in Threads \ {t} : ~InCriticalSection(u))
    /\ [][(phase = "ready" /\ RegistryStep) =>
             \E t \in Threads :
                 /\ lock = t
                 /\ InCriticalSection(t)
                 /\ lock' \in {t, NoThread}
                 /\ \A u \in Threads \ {t} : pc'[u] = pc[u] /\ ~InCriticalSection(u)]_vars

\* a thread is inside the loop of compact_allocation, after another thread's
\* allocate, while the other thread has calls left to make
C18_Witness ==
    /\ \E t \in Threads : pc[t] = "while" /\ lock = t
    /\ last.op = "compact_enter"
    /\ allocated_list # <<>>
    /\ ncalls < MaxThreadCalls

(***************************************************************************)
(* deallocate: the three ways it ends.                                     *)
(***************************************************************************)
\* the size of the chunk that the call deallocates, as the call reads it
FreedSize == ChunkSize(mem, last'.arg, char_signed)

\* the free chunk that starts right after the deallocated chunk, if there is one
HasFreeRight == last'.arg + FreedSize + HEADER_SIZE \in Blocks(free_list)

\* the free chunks that end right before the header of the deallocated chunk
FreeLeft ==
    {i \in 1..Len(free_list) :
        free_list[i] + ChunkSize(mem, free_list[i], char_signed) + HEADER_SIZE = last'.arg}

\* C21: when deallocate(address) is called on an allocated chunk of size s and the
\* free list holds a chunk of size n at address + s + 8, then after the call the
\* free list holds a chunk at address whose header is s + 8 + n, it no longer
\* holds the neighbour's address, and it has as many chunks as before.
C21_RightMerge ==
    [][(last'.op = "deallocate" /\ HasFreeRight) =>
        LET neighbour == last'.arg + FreedSize + HEADER_SIZE
        IN  /\ last'.arg \in Blocks(free_list')
            /\ ChunkSize(mem', last'.arg, char_signed) =
                   FreedSize + HEADER_SIZE + ChunkSize(mem, neighbour, char_signed)
            /\ neighbour \notin Blocks(free_list')
            /\ Len(free_list') = Len(free_list)]_vars

\* the call has merged: the header the absorbed neighbour had is still in the
\* payload of the free chunk at the deallocated address
C21_Witness ==
    /\ last.op = "deallocate"
    /\ last.arg \in Blocks(free_list)
    /\ Len(free_list) >= 2
    /\ \E s \in ReqSizes :
          /\ ReadByte(mem, last.arg + s) > 0
          /\ ChunkSize(mem, last.arg, char_signed) =
                 s + HEADER_SIZE + ChunkSize(mem, last.arg + s + HEADER_SIZE, char_signed)

\* C22: when deallocate(address) is called on an allocated chunk of size s with no
\* free right neighbour, and the free list holds a chunk at L of size n with
\* L + n + 8 = address, then after the call the free chunk at L has the header
\* n + 8 + s, address is not a free chunk of its own, and the free list has as
\* many chunks as before.
C22_LeftMerge ==
    [][(last'.op = "deallocate" /\ ~HasFreeRight /\ FreeLeft # {}) =>
        /\ \E i \in FreeLeft :
              /\ free_list[i] \in Blocks(free_list')
              /\ ChunkSize(mem', free_list[i], char_signed) =
                     ChunkSize(mem, free_list[i], char_signed) + HEADER_SIZE + FreedSize
        /\ last'.arg \notin Blocks(free_list')
        /\ Len(free_list') = Len(free_list)]_vars

\* C23: when deallocate(address) is called on an allocated chunk with no free
\* right neighbour and no free left neighbour, the chunk moves from the allocated
\* list to the free list with its address and its size: one free chunk more, one
\* allocated chunk less, used memory less by the size and available memory more
\* by it.  And no call of deallocate leaves fewer free chunks than it found.
C23_PlainMove ==
    /\ [][(last'.op = "deallocate" /\ ~HasFreeRight /\ FreeLeft = {}) =>
            /\ last'.arg \in Blocks(free_list')
            /\ last'.arg \notin Blocks(allocated_list')
            /\ ChunkSize(mem', last'.arg, char_signed) = FreedSize
            /\ Len(free_list') = Len(free_list) + 1
            /\ Len(allocated_list') = Len(allocated_list) - 1
            /\ used_memory(allocated_list', mem', char_signed) =
                   used_memory(allocated_list, mem, char_signed) - FreedSize
            /\ available_memory(free_list', mem', char_signed) =
                   available_memory(free_list, mem, char_signed) + FreedSize]_vars
    /\ [][last'.op = "deallocate" => Len(free_list') >= Len(free_list)]_vars

(***************************************************************************)
(* is_fragmented, called by the program itself.                            *)
(***************************************************************************)
\* the step is a call of is_fragmented from outside compact_allocation
IsFragmentedCalled == last'.op = "is_fragmented" /\ pc' = pc /\ lock' = lock

\* C24: is_fragmented with an empty free list returns false; with exactly one
\* free chunk it returns true if and only if the chunk's address is below the
\* address of some allocated chunk; in both cases it changes neither list nor
\* the buffer.
C24_FewFreeChunks ==
    [][(IsFragmentedCalled /\ Len(free_list) <= 1) =>
        /\ (last'.ret = 1) <=>
               /\ Len(free_list) = 1
               /\ \E i \in 1..Len(allocated_list) : free_list[1] < allocated_list[i]
        /\ last'.ret \in {0, 1}
        /\ UNCHANGED <<free_list, allocated_list, mem>>]_vars

\* is_fragmented has returned true for a single free chunk of 8 bytes, too small
\* to be the result of a merge
C24_Witness ==
    /\ last.op = "is_fragmented"
    /\ last.ret = 1
    /\ Len(free_list) = 1
    /\ ChunkSize(mem, free_list[1], char_signed) = 8
    /\ \E i \in 1..Len(allocated_list) : free_list[1] < allocated_list[i]

\* the pairs of free nodes of which the second starts where the first ends plus
\* the header
AdjacentPairs ==
    {pr \in (1..Len(free_list)) \X (1..Len(free_list)) :
        free_list[pr[1]] + ChunkSize(mem, free_list[pr[1]], char_signed) + HEADER_SIZE
            = free_list[pr[2]]}

\* the call has merged the pair pr: the lower chunk has both sizes plus 8, the
\* upper chunk has left the free list, and nothing else has changed
MergedPair(pr) ==
    /\ Len(free_list') = Len(free_list) - 1
    /\ Blocks(free_list') = Blocks(free_list) \ {free_list[pr[2]]}
    /\ ChunkSize(mem', free_list[pr[1]], char_signed) =
           ChunkSize(mem, free_list[pr[1]], char_signed) + HEADER_SIZE
               + ChunkSize(mem, free_list[pr[2]], char_signed)
    /\ \A k \in 1..Len(free_list) :
           k \notin {pr[1], pr[2]} =>
               ChunkSize(mem', free_list[k], char_signed) =
                   ChunkSize(mem, free_list[k], char_signed)
    /\ allocated_list' = allocated_list

\* C25: is_fragmented with more than one free chunk returns true; if two free
\* chunks are adjacent it merges exactly one adjacent pair (one free chunk less,
\* the lower chunk of the pair has the two sizes plus 8, the other free chunks are
\* as they were), and if none are adjacent it changes nothing.  So calls of
\* is_fragmented that are repeated reach a state in which no two free chunks are
\* adjacent.  (Checked under SpecCoalesce, whose calls of is_fragmented never stop.)
C25_ManyFreeChunks ==
    /\ [][(IsFragmentedCalled /\ Len(free_list) > 1) =>
            /\ last'.ret = 1
            /\ AdjacentPairs # {} => \E pr \in AdjacentPairs : MergedPair(pr)
            /\ AdjacentPairs = {} => UNCHANGED <<free_list, allocated_list, mem>>]_vars
    /\ []<>(AdjacentPairs = {})

\* a call has merged two free chunks and none are adjacent any more: the header
\* the absorbed chunk had is still in the payload of the chunk that absorbed it
C25_Witness ==
    /\ last.op = "is_fragmented"
    /\ last.ret = 1
    /\ AdjacentPairs = {}
    /\ \E i \in 1..Len(free_list), s \in 1..size :
          /\ ReadByte(mem, free_list[i] + s) > 0
          /\ ChunkSize(mem, free_list[i], char_signed) =
                 s + HEADER_SIZE + ReadByte(mem, free_list[i] + s)
          /\ free_list[i] + s + HEADER_SIZE \notin Blocks(allocated_list)

(***************************************************************************)
(* C26: a size recorded in a chunk header is the size a later read of the  *)
(* header yields, for every rounded capacity.                              *)
(***************************************************************************)
\* the size allocate records in the header of the chunk it returns: the requested
\* size when it splits the chosen chunk, the chosen chunk's size when it does not
RecordedByAllocate ==
    IF ChunkSize(mem, last'.ret, char_signed) - last'.arg > HEADER_SIZE
    THEN last'.arg
    ELSE ChunkSize(mem, last'.ret, char_signed)

\* C26: the header initialize_allocator writes reads back as the rounded capacity,
\* the header of the chunk allocate returns reads back as the size recorded for
\* it, what is left of a split chunk reads back as the rest less one header, and
\* the header a right merge of deallocate writes reads back as the sum of the two
\* sizes and one header.
C26_HeaderRoundTrip ==
    [][/\ last'.op = "initialize" =>
            ChunkSize(mem', HEADER_SIZE, char_signed) = size'
       /\ (last'.op = "allocate" /\ last'.ret # NULL) =>
            /\ ChunkSize(mem', last'.ret, char_signed) = RecordedByAllocate
            /\ RecordedByAllocate = last'.arg =>
                  ChunkSize(mem', last'.ret + last'.arg + HEADER_SIZE, char_signed) =
                     ChunkSize(mem, last'.ret, char_signed) - last'.arg - HEADER_SIZE
       /\ (last'.op = "deallocate" /\ HasFreeRight) =>
            ChunkSize(mem', last'.arg, char_signed) =
               FreedSize + HEADER_SIZE
                  + ChunkSize(mem, last'.arg + FreedSize + HEADER_SIZE, char_signed)]_vars


(***************************************************************************)
(* C27: live allocations have disjoint payloads, and no live payload       *)
(* contains the header of another chunk.                                   *)
(***************************************************************************)
\* the payload allocate has just handed out: [address, address + requested size)
NewPayload == last'.ret..(last'.ret + last'.arg - 1)

\* the 8 bytes of the header of the chunk at block b
HeaderBytes(b) == (b - HEADER_SIZE)..(b - 1)

\* C27: when allocate returns an address, the address is not one of a live
\* allocation, the payload handed out is disjoint from the header and the payload
\* of every live allocation, and it contains no byte of the header of another
\* chunk of the Free Registry or the Allocated Registry.
C27_LivePayloadsDisjoint ==
    [][(last'.op = "allocate" /\ last'.ret # NULL) =>
        /\ last'.ret \notin live
        /\ \A p \in live :
              NewPayload \cap
                 ((p - HEADER_SIZE)..(p + ChunkSize(mem, p, char_signed) - 1)) = {}
        /\ \A b \in (Blocks(free_list') \cup Blocks(allocated_list')) \ {last'.ret} :
              NewPayload \cap HeaderBytes(b) = {}]_vars


(***************************************************************************)
(* C28: after initialize and any sequence of allocate, deallocate and      *)
(* is_fragmented calls the chunks of the two registries tile the arena.    *)
(***************************************************************************)
AllChunks == Blocks(free_list) \cup Blocks(allocated_list)

\* C28: the lowest chunk is at the first payload address, every chunk ends where
\* the header of another chunk starts or where the arena ends, no chunk is in both
\* registries, and used_memory() + available_memory() + 8 * (chunks - 1) is the
\* rounded capacity.
C28_Tiling ==
    phase = "ready" =>
        /\ HEADER_SIZE \in AllChunks
        /\ \A b \in AllChunks :
              \/ b + ChunkSize(mem, b, char_signed) + HEADER_SIZE \in AllChunks
              \/ b + ChunkSize(mem, b, char_signed) = HEADER_SIZE + size
        /\ Blocks(free_list) \cap Blocks(allocated_list) = {}
        /\ used_memory(allocated_list, mem, char_signed)
              + available_memory(free_list, mem, char_signed)
              + HEADER_SIZE * (Len(free_list) + Len(allocated_list) - 1) = size


(***************************************************************************)
(* C29: every mutation of the lists or of a header is made by a thread     *)
(* that holds the lock.                                                    *)
(***************************************************************************)
\* the step changes the free list, the allocated list or a byte of the buffer
Mutation == <<free_list, allocated_list, mem>>' # <<free_list, allocated_list, mem>>

\* C29: a step that changes a list or the buffer is a step of the thread that
\* holds the lock, inside its call, and a direct call of is_fragmented that merges
\* two chunks is made while no thread is inside a critical section.
C29_MutationsUnderLock ==
    [][(phase = "ready" /\ Mutation) =>
          /\ \E t \in Threads : lock = t /\ InCriticalSection(t) /\ pc'[t] # pc[t]
          /\ IsFragmentedCalled => \A u \in Threads : ~InCriticalSection(u)]_vars


(***************************************************************************)
(* C30: threads that call only allocate and deallocate: every return gives *)
(* the lock back, and under fair scheduling every call that waits for the  *)
(* lock gets it and returns.                                               *)
(***************************************************************************)
WaitsForLock(t) == pc[t] \in {"lock_allocate", "lock_deallocate"}

HoldsLock(t) == pc[t] \in {"allocate", "deallocate"}

\* C30: the lock is held by a thread exactly while that thread is between the
\* pthread_mutex_lock and the return of its call, so it is free when no call is in
\* progress; every return of allocate and of deallocate leaves the lock free; a
\* call that waits for the lock gets the lock, and a call that was made returns.
C30_LockReleased ==
    /\ [](\A t \in Threads : HoldsLock(t) <=> lock = t)
    /\ []((\A t \in Threads : pc[t] = "idle") => lock = NoThread)
    /\ [][\A t \in Threads :
            (HoldsLock(t) /\ pc'[t] = "idle") =>
                /\ lock' = NoThread
                /\ last'.op \in {"allocate", "deallocate"}]_vars
    /\ \A t \in Threads :
          [](WaitsForLock(t) => <>(lock = t /\ <>(pc[t] = "idle")))

\* a thread waits for the lock that another thread holds, after an allocate that
\* found no chunk that fits, returned NULL and gave the lock back
C30_Witness ==
    /\ \E t, u \in Threads : WaitsForLock(t) /\ HoldsLock(u) /\ lock = u
    /\ last.op = "allocate"
    /\ last.ret = NULL
    /\ free_list # <<>>

====
